---- MODULE Spec2Model ----
(***************************************************************************)
(* Registration lifecycle, session check-in and gated downloads of the     *)
(* venu event platform (src/core/views.py, src/core/models.py).            *)
(*                                                                         *)
(* Every view runs in autocommit mode: a request is a sequence of separate *)
(* database statements, and requests of different clients interleave       *)
(* between statements.  One action of the model is one database statement  *)
(* of a view together with the local computation that follows it up to the *)
(* next statement or the response.                                         *)
(***************************************************************************)
EXTENDS Integers, FiniteSets, Sequences, TLC

\* ------------------------------------------------------------------ bounds
\* number of request slots served concurrently
NProcs == 2
\* the clock runs from 0 to MaxTime
MaxTime == 2
\* clients present the primary keys and tokens of the first MaxRegs
\* Registration rows (two published events and one email make two rows)
MaxRegs == 2

Procs == 1..NProcs
\* None in a text field, and NULL in a numeric column
Nil == "nil"
Null == 0 - 1

\* ---------------------------------------------------------- organizer data
\* Events, sessions and resources are authored by the organizer tooling and
\* are read-only to the views modelled here.
Events == {"e1", "e2", "e3"}

requires_approval(e) == e \in {"e1", "e3"}

is_published(e) == e \in {"e1", "e2"}

\* questions of an event (Question.event)
questions(e) == IF e = "e1" THEN {"q1"} ELSE {}

\* Session rows: s1 belongs to e1; s2 and s3 belong to e2 and overlap at 1
Sessions ==
    { [id |-> "s1", event |-> "e1", start_time |-> 0, end_time |-> 1],
      [id |-> "s2", event |-> "e2", start_time |-> 0, end_time |-> 1],
      [id |-> "s3", event |-> "e2", start_time |-> 1, end_time |-> 2] }

\* Resource rows; unlock_time Null is NULL, file FALSE is an empty FileField,
\* session Nil is a general resource of the event
Resources ==
    { [id |-> "r1", event |-> "e1", session |-> "s1", unlock_time |-> 1,
       requires_check_in |-> TRUE, file |-> TRUE],
      [id |-> "r2", event |-> "e1", session |-> Nil, unlock_time |-> Null,
       requires_check_in |-> FALSE, file |-> FALSE],
      [id |-> "r3", event |-> "e2", session |-> Nil, unlock_time |-> 1,
       requires_check_in |-> FALSE, file |-> TRUE],
      [id |-> "r4", event |-> "e2", session |-> "s2", unlock_time |-> Null,
       requires_check_in |-> TRUE, file |-> FALSE] }

\* request.user: a staff account, an ordinary account, AnonymousUser
Actors == {"staff", "user", "anon"}

\* form inputs
Emails == {"a@x"}
Submissions == { [name |-> "n1", phone |-> "p1"], [name |-> "n2", phone |-> "p2"] }

STATUS_CHOICES == {"pending", "approved", "rejected"}

\* Registration.uuid: uuid4 default, one fresh token per row
uuid4(pk) == 100 + pk

\* tokens a client may present (issued or not)
Tokens == { uuid4(k) : k \in 1..MaxRegs }

RegPks == 1..MaxRegs

\* ------------------------------------------------------------------- state
VARIABLES
    workers,        \* how many requests the server handles at the same time
    now,            \* timezone.now()
    participants,   \* Participant table
    registrations,  \* Registration table
    answers,        \* RegistrationAnswer table
    attendances,    \* Attendance table
    req,            \* req[p]: the request slot p is serving, and where it is
    last            \* the response sent by the step just taken, if it sent one

vars == <<workers, now, participants, registrations, answers, attendances, req, last>>

store == <<participants, registrations, answers, attendances>>

\* the local variables of a view that are live across database statements
Idle ==
    [ op |-> Nil, pc |-> "idle", actor |-> Nil, event |-> Nil, email |-> Nil,
      participant |-> Null,
      reg |-> Null, session |-> Nil, resource |-> Nil, at |-> Null ]

\* the template context of the dashboard, before the view fills it
NoContext ==
    [ total_count |-> Null, approved_count |-> Null, pending_count |-> Null,
      registrations |-> {}, status_filter |-> Nil ]

\* a response: the view, its outcome, the detail of its message, and the
\* context it renders (locked_resources of the portal, the dashboard's keys)
NoResponse ==
    [ op |-> Nil, outcome |-> Nil, detail |-> Nil, locked_resources |-> {},
      context |-> NoContext ]

\* the view returns its response (with the detail its message carries):
\* the slot is free again
RespondWith(p, op, o, d) ==
    /\ req' = [req EXCEPT ![p] = Idle]
    /\ last' = [NoResponse EXCEPT !.op = op, !.outcome = o, !.detail = d]

\* the view renders its template with a context
Render(p, op, locked, ctx) ==
    /\ req' = [req EXCEPT ![p] = Idle]
    /\ last' = [NoResponse EXCEPT !.op = op, !.outcome = "ok",
                                  !.locked_resources = locked, !.context = ctx]

Respond(p, op, o) == RespondWith(p, op, o, Nil)

\* the view goes on to its next database statement
Goto(p, r) ==
    /\ req' = [req EXCEPT ![p] = r]
    /\ last' = NoResponse

\* the server is between responses: the response of the last step is out
Ready == last = NoResponse

\* a request is taken by the lowest free slot (slots are interchangeable)
Free(p) ==
    /\ Ready
    /\ req[p].pc = "idle"
    /\ p <= workers
    /\ \A q \in Procs : q < p => req[q].pc # "idle"

Init ==
    /\ workers = NProcs
    /\ now = 0
    /\ participants = {}
    /\ registrations = {}
    /\ answers = {}
    /\ attendances = {}
    /\ req = [p \in Procs |-> Idle]
    /\ last = NoResponse

\* ----------------------------------------------------------------- queries
RegByPk(pk) == { r \in registrations : r.pk = pk }

RegByUuid(u) == { r \in registrations : r.uuid = u }

TheOne(S) == CHOOSE x \in S : TRUE

\* Registration.objects.filter(event=event, participant=participant).exists()
registration_exists_never(e, part) == FALSE

registration_exists(e, part) ==
    \E r \in registrations : r.event = e /\ r.participant = part

\* unique_together = ('event', 'participant'): may the row be inserted?
registration_unique(e, part) ==
    ~ \E r \in registrations : r.event = e /\ r.participant = part

\* initial status from the event setting
initial_status_always_pending(e) == "pending"

initial_status(e) == IF requires_approval(e) THEN "pending" ELSE "approved"

\* request.user.is_staff
is_staff_any_login(actor) == actor # "anon"

is_staff(actor) == actor = "staff"

\* ---------------------------------------------------------- event_register
\* get_object_or_404(Event, slug=slug, is_published=True): is a row found?
published_event_any_slug(e) == e \in Events

published_event(e) == e \in Events /\ is_published(e)

\* update_or_create in place of get_or_create: the last submission wins
event_register_update_or_create(p, e, email, sub, valid) ==
    /\ Free(p)
    /\ LET r0 == [Idle EXCEPT !.op = "event_register", !.event = e, !.email = email]
           found == { x \in participants : x.email = email }
       IN  IF ~ published_event(e)
           THEN /\ Respond(p, "event_register", "not_found")
                /\ UNCHANGED participants
           ELSE IF ~ valid
           THEN /\ Respond(p, "event_register", "form")
                /\ UNCHANGED participants
           ELSE IF found # {}
           THEN /\ Goto(p, [r0 EXCEPT !.pc = "check", !.participant = TheOne(found).pk])
                /\ participants' =
                      { IF x.email = email
                        THEN [x EXCEPT !.name = sub.name, !.phone = sub.phone] ELSE x
                        : x \in participants }
           ELSE LET pk == Cardinality(participants) + 1
                IN  /\ participants' = participants \cup
                          { [pk |-> pk, email |-> email, name |-> sub.name,
                             phone |-> sub.phone] }
                    /\ Goto(p, [r0 EXCEPT !.pc = "check", !.participant = pk])
    /\ UNCHANGED <<workers, now, registrations, answers, attendances>>

\* get_object_or_404(Event, is_published=True), form validation, then
\* 1. Participant.objects.get_or_create(email=..., defaults={name, phone}),
\*    taken as one database statement, like every other ORM call of the views
event_register_get_or_create(p, e, email, sub, valid) ==
    /\ Free(p)
    /\ LET r0 == [Idle EXCEPT !.op = "event_register", !.event = e, !.email = email]
           found == { x \in participants : x.email = email }
       IN  IF ~ published_event(e)
           THEN /\ Respond(p, "event_register", "not_found")
                /\ UNCHANGED participants
           ELSE IF ~ valid
           THEN /\ Respond(p, "event_register", "form")
                /\ UNCHANGED participants
           ELSE IF found # {}
           THEN /\ Goto(p, [r0 EXCEPT !.pc = "check", !.participant = TheOne(found).pk])
                /\ UNCHANGED participants
           ELSE LET pk == Cardinality(participants) + 1
                IN  /\ participants' = participants \cup
                          { [pk |-> pk, email |-> email, name |-> sub.name,
                             phone |-> sub.phone] }
                    /\ Goto(p, [r0 EXCEPT !.pc = "check", !.participant = pk])
    /\ UNCHANGED <<workers, now, registrations, answers, attendances>>

\* 2. Check for duplicate registration
event_register_exists(p) ==
    /\ Ready
    /\ req[p].op = "event_register" /\ req[p].pc = "check"
    /\ IF registration_exists(req[p].event, req[p].participant)
       THEN Respond(p, "event_register", "duplicate")
       ELSE Goto(p, [req[p] EXCEPT !.pc = "create"])
    /\ UNCHANGED <<workers, now, store>>

\* 3. Save Registration; a violated unique_together raises IntegrityError,
\*    which no handler catches: the request ends in a server error
event_register_create(p) ==
    /\ Ready
    /\ req[p].op = "event_register" /\ req[p].pc = "create"
    /\ LET e == req[p].event
           part == req[p].participant
           pk == Cardinality(registrations) + 1
           r1 == [req[p] EXCEPT !.reg = pk]
       IN  IF ~ registration_unique(e, part)
           THEN /\ Respond(p, "event_register", "integrity_error")
                /\ UNCHANGED registrations
           ELSE /\ registrations' = registrations \cup
                      { [pk |-> pk, uuid |-> uuid4(pk), event |-> e,
                         participant |-> part, status |-> initial_status(e)] }
                /\ IF questions(e) = {}
                   THEN Respond(p, "event_register", "created")
                   ELSE Goto(p, [r1 EXCEPT !.pc = "answers"])
    /\ UNCHANGED <<workers, now, participants, answers, attendances>>

\* 4. Save Dynamic Answers
event_register_answers(p) ==
    /\ Ready
    /\ req[p].op = "event_register" /\ req[p].pc = "answers"
    /\ answers' = answers \cup
          { [registration |-> req[p].reg, question |-> q] : q \in questions(req[p].event) }
    /\ Respond(p, "event_register", "created")
    /\ UNCHANGED <<workers, now, participants, registrations, attendances>>

\* ------------------------------------ approve_registration / reject_registration
\* @login_required, the is_staff test and get_object_or_404(Registration, pk=pk)
transition_load(p, op, actor, pk) ==
    /\ Free(p)
    /\ LET r0 == [Idle EXCEPT !.op = op, !.actor = actor]
       IN  IF actor = "anon" THEN Respond(p, op, "login_redirect")
           ELSE IF ~ is_staff(actor) THEN Respond(p, op, "unauthorized")
           ELSE IF RegByPk(pk) = {} THEN Respond(p, op, "not_found")
           ELSE Goto(p, [r0 EXCEPT !.pc = "save", !.reg = pk])
    /\ UNCHANGED <<workers, now, store>>

approve_registration(p, actor, pk) == transition_load(p, "approve_registration", actor, pk)

reject_registration(p, actor, pk) == transition_load(p, "reject_registration", actor, pk)

\* a rejection that puts the registration back in the queue
target_status_reopen(op) == IF op = "approve_registration" THEN "approved" ELSE "pending"

target_status_rejected(op) == "rejected"

target_status(op) == IF op = "approve_registration" THEN "approved" ELSE "rejected"

\* a transition that also issues a new token
registration_save_new_token(p) ==
    /\ Ready
    /\ req[p].op \in {"approve_registration", "reject_registration"}
    /\ req[p].pc = "save"
    /\ registrations' =
          { IF r.pk = req[p].reg
            THEN [r EXCEPT !.status = target_status(req[p].op), !.uuid = uuid4(r.pk + MaxRegs)]
            ELSE r
            : r \in registrations }
    /\ Respond(p, req[p].op, "ok")
    /\ UNCHANGED <<workers, now, participants, answers, attendances>>

\* a transition that also removes the Attendance rows of the registration
registration_save_cascade(p) ==
    /\ Ready
    /\ req[p].op \in {"approve_registration", "reject_registration"}
    /\ req[p].pc = "save"
    /\ registrations' =
          { IF r.pk = req[p].reg THEN [r EXCEPT !.status = target_status(req[p].op)] ELSE r
            : r \in registrations }
    /\ attendances' = { a \in attendances : a.registration # req[p].reg }
    /\ Respond(p, req[p].op, "ok")
    /\ UNCHANGED <<workers, now, participants, answers>>

\* a guarded transition: the status is written only over 'pending'
registration_save_from_pending(p) ==
    /\ Ready
    /\ req[p].op \in {"approve_registration", "reject_registration"}
    /\ req[p].pc = "save"
    /\ registrations' =
          { IF r.pk = req[p].reg /\ r.status = "pending"
            THEN [r EXCEPT !.status = target_status(req[p].op)] ELSE r
            : r \in registrations }
    /\ Respond(p, req[p].op, "ok")
    /\ UNCHANGED <<workers, now, participants, answers, attendances>>

\* registration.status = ...; registration.save()
registration_save(p) ==
    /\ Ready
    /\ req[p].op \in {"approve_registration", "reject_registration"}
    /\ req[p].pc = "save"
    /\ registrations' =
          { IF r.pk = req[p].reg THEN [r EXCEPT !.status = target_status(req[p].op)] ELSE r
            : r \in registrations }
    /\ Respond(p, req[p].op, "ok")
    /\ UNCHANGED <<workers, now, participants, answers, attendances>>

\* -------------------------------------------------------- process_check_in
\* registration.status.upper()
upper(status) ==
    CASE status = "pending" -> "PENDING"
      [] status = "approved" -> "APPROVED"
      [] status = "rejected" -> "REJECTED"

\* 1. Validation: Is it approved?
status_not_rejected(status) == status # "rejected"

status_approved(status) == status = "approved"

\* sessions.filter(start_time__lte=now, end_time__gte=now), any event
in_window_any_event(e, t) ==
    { s \in Sessions : s.start_time <= t /\ s.end_time >= t }

\* the end of the window left out
in_window_end_exclusive(e, t) ==
    { s \in Sessions : s.event = e /\ s.start_time <= t /\ s.end_time > t }

\* registration.event.sessions.filter(start_time__lte=now, end_time__gte=now)
in_window(e, t) ==
    { s \in Sessions : s.event = e /\ s.start_time <= t /\ s.end_time >= t }

\* the last of the ordered sessions instead of the first
first_session_latest(S) ==
    IF S = {} THEN Nil
    ELSE (CHOOSE s \in S : \A o \in S : s.start_time >= o.start_time).id

\* .first() under Session.Meta.ordering = ['start_time']; Nil is None
first_session(S) ==
    IF S = {} THEN Nil
    ELSE (CHOOSE s \in S : \A o \in S : s.start_time <= o.start_time).id

\* the first session of the event, whatever the time
active_session_any_time(e, t) == first_session({ s \in Sessions : s.event = e })

active_session(e, t) == first_session(in_window(e, t))

\* the Attendance rows of a (registration, session) pair; the field row tells
\* the rows of one pair apart, as the primary key does
attendance_rows(reg, sess) ==
    { a \in attendances : a.registration = reg /\ a.session = sess }

\* Attendance.objects.filter(registration=registration, session=active_session).exists()
attendance_exists_never(reg, sess) == FALSE

attendance_exists(reg, sess) ==
    \E a \in attendances : a.registration = reg /\ a.session = sess

\* unique_together = ('registration', 'session'): may the row be inserted?
attendance_unique_unenforced(reg, sess) == TRUE

attendance_unique(reg, sess) ==
    ~ \E a \in attendances : a.registration = reg /\ a.session = sess

\* the token resolved before the is_staff test
process_check_in_token_first(p, actor, uuid) ==
    /\ Free(p)
    /\ LET r0 == [Idle EXCEPT !.op = "process_check_in", !.actor = actor]
       IN  IF RegByUuid(uuid) = {} THEN Respond(p, "process_check_in", "not_found")
           ELSE IF ~ is_staff(actor) THEN Respond(p, "process_check_in", "unauthorized")
           ELSE LET reg == TheOne(RegByUuid(uuid))
                    r1 == [r0 EXCEPT !.reg = reg.pk, !.event = reg.event]
                IN  IF ~ status_approved(reg.status)
                    THEN RespondWith(p, "process_check_in", "not_approved", upper(reg.status))
                    ELSE Goto(p, [r1 EXCEPT !.pc = "session"])
    /\ UNCHANGED <<workers, now, store>>

\* ---------------------------------------------------------- staff_check_in
\* get_object_or_404(Event, pk=event_id), then the active session of the
\* event goes into the context of the scanner page
staff_check_in(p, e) ==
    /\ Free(p)
    /\ RespondWith(p, "staff_check_in", "ok", active_session(e, now))
    /\ UNCHANGED <<workers, now, store>>

\* the is_staff test, get_object_or_404(Registration, uuid=uuid), status test
process_check_in(p, actor, uuid) ==
    /\ Free(p)
    /\ LET r0 == [Idle EXCEPT !.op = "process_check_in", !.actor = actor]
       IN  IF ~ is_staff(actor) THEN Respond(p, "process_check_in", "unauthorized")
           ELSE IF RegByUuid(uuid) = {} THEN Respond(p, "process_check_in", "not_found")
           ELSE LET reg == TheOne(RegByUuid(uuid))
                    r1 == [r0 EXCEPT !.reg = reg.pk, !.event = reg.event]
                IN  IF ~ status_approved(reg.status)
                    THEN RespondWith(p, "process_check_in", "not_approved", upper(reg.status))
                    ELSE Goto(p, [r1 EXCEPT !.pc = "session"])
    /\ UNCHANGED <<workers, now, store>>

\* 2. Validation: Active Session?  now = timezone.now() is kept in at
process_check_in_session(p) ==
    /\ Ready
    /\ req[p].op = "process_check_in" /\ req[p].pc = "session"
    /\ LET s == active_session(req[p].event, now)
           r1 == [req[p] EXCEPT !.session = s, !.at = now]
       IN  IF s = Nil
           THEN Respond(p, "process_check_in", "no_active_session")
           ELSE Goto(p, [r1 EXCEPT !.pc = "exists"])
    /\ UNCHANGED <<workers, now, store>>

\* a repeated scan that withdraws the earlier check-in
process_check_in_exists_toggle(p) ==
    /\ Ready
    /\ req[p].op = "process_check_in" /\ req[p].pc = "exists"
    /\ IF attendance_exists(req[p].reg, req[p].session)
       THEN /\ Respond(p, "process_check_in", "already_checked_in")
            /\ attendances' = attendances \ attendance_rows(req[p].reg, req[p].session)
       ELSE /\ Goto(p, [req[p] EXCEPT !.pc = "create"])
            /\ UNCHANGED attendances
    /\ UNCHANGED <<workers, now, participants, registrations, answers>>

\* 3. Validation: Duplicate?
process_check_in_exists(p) ==
    /\ Ready
    /\ req[p].op = "process_check_in" /\ req[p].pc = "exists"
    /\ IF attendance_exists(req[p].reg, req[p].session)
       THEN Respond(p, "process_check_in", "already_checked_in")
       ELSE Goto(p, [req[p] EXCEPT !.pc = "create"])
    /\ UNCHANGED <<workers, now, store>>

\* 4. Success: Create Attendance; a violated unique_together raises
\*    IntegrityError, which no handler catches
process_check_in_create(p) ==
    /\ Ready
    /\ req[p].op = "process_check_in" /\ req[p].pc = "create"
    /\ IF ~ attendance_unique(req[p].reg, req[p].session)
       THEN /\ Respond(p, "process_check_in", "integrity_error")
            /\ UNCHANGED attendances
       ELSE /\ attendances' = attendances \cup
                  { [registration |-> req[p].reg, session |-> req[p].session,
                     scanned_by |-> req[p].actor,
                     row |-> Cardinality(attendance_rows(req[p].reg, req[p].session)) + 1] }
            /\ Respond(p, "process_check_in", "success")
    /\ UNCHANGED <<workers, now, participants, registrations, answers>>

\* --------------------------------------------------------- secure_download
ResById(id) == TheOne({ r \in Resources : r.id = id })

\* Attendance.objects.filter(registration=registration).exists()
attended_linked_session(reg) ==
    \E a \in attendances, res \in Resources :
        a.registration = reg /\ a.session = res.session

attended(reg) == \E a \in attendances : a.registration = reg

\* checks 1 to 3 of secure_download without the approval check
download_denial_no_status(res, reg, t) ==
    IF res.event # reg.event THEN "forbidden"
    ELSE IF res.unlock_time # Null /\ t < res.unlock_time THEN "not_available_yet"
    ELSE Nil

\* checks 1 to 3 of secure_download: the first that fails, Nil when all pass
download_denial(res, reg, t) ==
    IF res.event # reg.event THEN "forbidden"
    ELSE IF reg.status # "approved" THEN "not_approved"
    ELSE IF res.unlock_time # Null /\ t < res.unlock_time THEN "not_available_yet"
    ELSE Nil

\* 5. Serve File
serve(res) == IF ~ res.file THEN "file_not_found" ELSE "served"

\* the backing file looked at before the security checks
secure_download_file_first(p, uuid, rid) ==
    /\ Free(p)
    /\ LET r0 == [Idle EXCEPT !.op = "secure_download", !.resource = rid]
       IN  IF RegByUuid(uuid) = {} THEN Respond(p, "secure_download", "not_found")
           ELSE LET reg == TheOne(RegByUuid(uuid))
                    res == ResById(rid)
                    r1 == [r0 EXCEPT !.reg = reg.pk, !.event = reg.event]
                    denial == download_denial(res, reg, now)
                IN  IF ~ res.file THEN RespondWith(p, "secure_download", "file_not_found", rid)
                    ELSE IF denial # Nil THEN RespondWith(p, "secure_download", denial, rid)
                    ELSE IF res.requires_check_in THEN Goto(p, [r1 EXCEPT !.pc = "attended"])
                    ELSE RespondWith(p, "secure_download", serve(res), rid)
    /\ UNCHANGED <<workers, now, store>>

\* get_object_or_404 of the registration and the resource, checks 1 to 3
secure_download(p, uuid, rid) ==
    /\ Free(p)
    /\ LET r0 == [Idle EXCEPT !.op = "secure_download", !.resource = rid]
       IN  IF RegByUuid(uuid) = {} THEN Respond(p, "secure_download", "not_found")
           ELSE LET reg == TheOne(RegByUuid(uuid))
                    res == ResById(rid)
                    r1 == [r0 EXCEPT !.reg = reg.pk, !.event = reg.event]
                    denial == download_denial(res, reg, now)
                IN  IF denial # Nil THEN RespondWith(p, "secure_download", denial, rid)
                    ELSE IF res.requires_check_in THEN Goto(p, [r1 EXCEPT !.pc = "attended"])
                    ELSE RespondWith(p, "secure_download", serve(res), rid)
    /\ UNCHANGED <<workers, now, store>>

\* 4. Security Check: Attendance Constraint
secure_download_attended(p) ==
    /\ Ready
    /\ req[p].op = "secure_download" /\ req[p].pc = "attended"
    /\ IF ~ attended(req[p].reg)
       THEN RespondWith(p, "secure_download", "must_check_in", req[p].resource)
       ELSE RespondWith(p, "secure_download", serve(ResById(req[p].resource)),
                        req[p].resource)
    /\ UNCHANGED <<workers, now, store>>

\* ------------------------------------------------------ participant_portal
\* 1. Check Time Condition
time_locked_at_unlock_time(res, t) == res.unlock_time # Null /\ t <= res.unlock_time

time_locked(res, t) == res.unlock_time # Null /\ t < res.unlock_time

\* the check-in condition without the Attendance query
check_in_locked_no_query(res, reg) == res.requires_check_in

\* 2. Check Check-In Condition
check_in_locked(res, reg) == res.requires_check_in /\ ~ attended(reg)

\* is_locked of one pass of the loop over the resources
is_locked(res, reg, t) == time_locked(res, t) \/ check_in_locked(res, reg)

\* event.resources.all()
event_resources(e) == { res \in Resources : res.event = e }

\* the ids the loop appends to locked_resources
locked_resources(e, reg, t) ==
    { res.id : res \in { x \in event_resources(e) : is_locked(x, reg, t) } }

\* get_object_or_404(Registration, uuid=uuid); now = timezone.now()
participant_portal(p, uuid) ==
    /\ Free(p)
    /\ LET r0 == [Idle EXCEPT !.op = "participant_portal"]
       IN  IF RegByUuid(uuid) = {} THEN Respond(p, "participant_portal", "not_found")
           ELSE LET reg == TheOne(RegByUuid(uuid))
                IN  Goto(p, [r0 EXCEPT !.pc = "resources", !.reg = reg.pk,
                                        !.event = reg.event, !.at = now])
    /\ UNCHANGED <<workers, now, store>>

\* the loop over the resources, with its Attendance query; the response
\* carries locked_resources
participant_portal_resources(p) ==
    /\ Ready
    /\ req[p].op = "participant_portal" /\ req[p].pc = "resources"
    /\ Render(p, "participant_portal",
              locked_resources(req[p].event, req[p].reg, req[p].at), NoContext)
    /\ UNCHANGED <<workers, now, store>>

\* ------------------------------------------------------ EventDashboardView
\* self.object.registrations.all()
event_registrations(e) == { r \in registrations : r.event = e }

\* registrations.filter(status=...)
filter_status_ignored(rows, status) == rows

filter_status(rows, status) == { r \in rows : r.status = status }

\* status values the query string may carry, 'all' being the default
StatusFilters == {"all"} \cup STATUS_CHOICES

\* get_context_data: the keys it adds to the template context
get_context_data(e, status_filter) ==
    LET rows == event_registrations(e)
    IN  [ total_count |-> Cardinality(rows),
          approved_count |-> Cardinality(filter_status(rows, "approved")),
          pending_count |-> Cardinality(filter_status(rows, "pending")),
          registrations |-> { r.pk : r \in IF status_filter # "all"
                                             THEN filter_status(rows, status_filter)
                                             ELSE rows },
          status_filter |-> status_filter ]

\* StaffRequiredMixin, then the context.  The view writes nothing; its
\* queries (three counts and the list) are read as one snapshot.
EventDashboardView(p, actor, e, status_filter) ==
    /\ Free(p)
    /\ IF actor = "anon" THEN Respond(p, "EventDashboardView", "login_redirect")
       ELSE IF ~ is_staff(actor) THEN Respond(p, "EventDashboardView", "unauthorized")
       ELSE Render(p, "EventDashboardView", {}, get_context_data(e, status_filter))
    /\ UNCHANGED <<workers, now, store>>

\* ------------------------------------------------------------- environment
\* the response computed by the step before goes out to the client
Deliver ==
    /\ last # NoResponse
    /\ last' = NoResponse
    /\ UNCHANGED <<workers, now, store, req>>

\* the clock advances
Tick ==
    /\ Ready
    /\ now < MaxTime
    /\ now' = now + 1
    /\ last' = NoResponse
    /\ UNCHANGED <<workers, store, req>>

Step(p) ==
    \/ \E e \in Events, email \in Emails, sub \in Submissions, valid \in BOOLEAN :
          event_register_get_or_create(p, e, email, sub, valid)
    \/ event_register_exists(p)
    \/ event_register_create(p)
    \/ event_register_answers(p)
    \/ \E actor \in Actors, pk \in RegPks : approve_registration(p, actor, pk)
    \/ \E actor \in Actors, pk \in RegPks : reject_registration(p, actor, pk)
    \/ registration_save(p)
    \/ \E e \in Events : staff_check_in(p, e)
    \/ \E actor \in Actors, uuid \in Tokens : process_check_in(p, actor, uuid)
    \/ process_check_in_session(p)
    \/ process_check_in_exists(p)
    \/ process_check_in_create(p)
    \/ \E uuid \in Tokens, res \in Resources : secure_download(p, uuid, res.id)
    \/ secure_download_attended(p)
    \/ \E uuid \in Tokens : participant_portal(p, uuid)
    \/ participant_portal_resources(p)
    \/ \E actor \in Actors, e \in Events, status_filter \in StatusFilters :
          EventDashboardView(p, actor, e, status_filter)

Next == Tick \/ Deliver \/ \E p \in Procs : Step(p)

Spec == Init /\ [][Next]_vars

\* Requests served one after another: a single worker, so a request is taken
\* only when the one before it has been answered.
SeqInit ==
    /\ workers = 1
    /\ now = 0
    /\ participants = {}
    /\ registrations = {}
    /\ answers = {}
    /\ attendances = {}
    /\ req = [p \in Procs |-> Idle]
    /\ last = NoResponse

SeqSpec == SeqInit /\ [][Next]_vars

\* ================================================================== claims
\* the Registration rows of an (event, participant) pair
registration_rows(e, part) ==
    { r \in registrations : r.event = e /\ r.participant = part }

\* a Registration of the event exists for a Participant with this email
Registered(e, email) ==
    \E r \in registrations, x \in participants :
        r.event = e /\ r.participant = x.pk /\ x.email = email

\* the step just taken answered a request of view op with outcome o
Answered(op, o) == last.op = op /\ last.outcome = o

\* C1: whenever event_register creates a Registration, its status is
\* 'approved' if the event's requires_approval is false and 'pending' if it
\* is true; none is created 'rejected'.
C1_InitialStatus ==
    [][ \A r \in registrations' :
          (~ \E x \in registrations : x.pk = r.pk) =>
              /\ requires_approval(r.event) => r.status = "pending"
              /\ ~ requires_approval(r.event) => r.status = "approved"
              /\ r.status # "rejected" ]_vars

C1_Witness ==
    /\ Answered("event_register", "created")
    /\ \E r \in registrations : r.event = "e1" /\ r.status = "pending"
    /\ \E r \in registrations : r.event = "e2" /\ r.status = "approved"

\* C2: with requests served one after another, an event_register call for an
\* (event, email) pair that is already registered reuses the Participant,
\* ends in the duplicate outcome and creates nothing; the store never holds
\* two Registrations of one (event, participant) pair.
C2_SecondIsDuplicate ==
    /\ [](\A e \in Events, x \in participants :
            Cardinality(registration_rows(e, x.pk)) <= 1)
    /\ [][ \A p \in Procs :
            /\ \A e \in Events, email \in Emails, sub \in Submissions :
                  (event_register_get_or_create(p, e, email, sub, TRUE) /\ Registered(e, email))
                  => /\ store' = store
                     /\ req'[p].pc = "check"
                     /\ registration_rows(e, req'[p].participant) # {}
            /\ (event_register_exists(p) /\ Registered(req[p].event, req[p].email))
                  => /\ store' = store
                     /\ Answered("event_register", "duplicate")' ]_vars

C2_Witness ==
    /\ Answered("event_register", "duplicate")
    /\ Cardinality(registrations) = 2

\* C3: two interleaved event_register requests for one (event, email) pair
\* do not both create a Registration, and the loser ends in the duplicate
\* outcome, not in a raw uniqueness-constraint error.
C3_LoserIsDuplicate ==
    /\ \A e \in Events, x \in participants : Cardinality(registration_rows(e, x.pk)) <= 1
    /\ ~ Answered("event_register", "integrity_error")

\* C4: of the interleaved process_check_in requests for one token and one
\* resolved session exactly one succeeds, the others end in the
\* already-checked-in outcome; none ends in an unstructured error.
C4_LosersAlreadyCheckedIn ==
    /\ \A r \in registrations, s \in Sessions : Cardinality(attendance_rows(r.pk, s.id)) <= 1
    /\ ~ Answered("process_check_in", "integrity_error")

\* C5: with requests served one after another, a check-in that finds no
\* Attendance of its (registration, session) pair succeeds and creates the
\* one row of the pair, and a check-in that finds one ends in the
\* already-checked-in outcome and creates nothing.
C5_SecondIsAlreadyCheckedIn ==
    /\ [](\A r \in registrations, s \in Sessions :
            Cardinality(attendance_rows(r.pk, s.id)) <= 1)
    /\ [][ \A p \in Procs :
            /\ (process_check_in_exists(p) /\ attendance_rows(req[p].reg, req[p].session) # {})
                  => /\ store' = store
                     /\ Answered("process_check_in", "already_checked_in")'
            /\ (process_check_in_exists(p) /\ attendance_rows(req[p].reg, req[p].session) = {})
                  => req'[p].pc = "create"
            /\ process_check_in_create(p)
                  => /\ Answered("process_check_in", "success")'
                     /\ attendance_rows(req[p].reg, req[p].session) = {}
                     /\ Cardinality({ a \in attendances' : a.registration = req[p].reg
                                                            /\ a.session = req[p].session }) = 1
                     /\ Cardinality(attendances') = Cardinality(attendances) + 1 ]_vars

C5_Witness ==
    /\ Answered("process_check_in", "already_checked_in")
    /\ \E r \in registrations, s \in Sessions :
          r.status = "approved" /\ Cardinality(attendance_rows(r.pk, s.id)) = 1

\* C6: in every reachable state, under any interleaving, the Attendance
\* table holds at most one row per (Registration, Session) pair.
C6_AttendanceUnique ==
    \A r \in registrations, s \in Sessions : Cardinality(attendance_rows(r.pk, s.id)) <= 1

\* two scans raced past the duplicate test and the constraint refused one
C6_Witness ==
    /\ Answered("process_check_in", "integrity_error")
    /\ attendances # {}

\* C7: a staff check-in for a registration whose status is 'pending' or
\* 'rejected' ends in the not-approved outcome, which reports that status,
\* and creates no Attendance.
C7_NotApproved ==
    [][ \A p \in Procs, uuid \in Tokens :
          (/\ process_check_in(p, "staff", uuid)
           /\ RegByUuid(uuid) # {}
           /\ TheOne(RegByUuid(uuid)).status \in {"pending", "rejected"})
          => /\ Answered("process_check_in", "not_approved")'
             /\ last'.detail = IF TheOne(RegByUuid(uuid)).status = "pending"
                               THEN "PENDING" ELSE "REJECTED"
             /\ req'[p] = Idle
             /\ store' = store ]_vars

C7_Witness ==
    /\ Answered("process_check_in", "not_approved")
    /\ last.detail = "REJECTED"

\* the sessions of event e whose window contains time t, bounds included
WindowsOf(e, t) ==
    { s \in Sessions : s.event = e /\ s.start_time <= t /\ t <= s.end_time }

\* C8 as claimed: a staff check-in at a time in no session window of the
\* registration's event ends in the no-active-session outcome whatever the
\* registration's status.
C8_NoActiveSessionAnyStatus ==
    [][ \A p \in Procs, uuid \in Tokens :
          /\ (/\ process_check_in(p, "staff", uuid)
              /\ RegByUuid(uuid) # {}
              /\ WindowsOf(TheOne(RegByUuid(uuid)).event, now) = {}
              /\ req'[p] = Idle)
             => Answered("process_check_in", "no_active_session")'
          /\ (process_check_in_session(p) /\ WindowsOf(req[p].event, now) = {})
             => Answered("process_check_in", "no_active_session")' ]_vars

\* C8 amended: at a time in no session window of the registration's event a
\* staff check-in ends in the no-active-session outcome when the
\* registration is approved, and in the not-approved outcome when it is
\* pending or rejected; neither creates an Attendance.
C8_NoActiveSessionWhenApproved ==
    [][ \A p \in Procs, uuid \in Tokens :
          /\ (/\ process_check_in(p, "staff", uuid)
              /\ RegByUuid(uuid) # {}
              /\ WindowsOf(TheOne(RegByUuid(uuid)).event, now) = {})
             => /\ store' = store
                /\ IF TheOne(RegByUuid(uuid)).status = "approved"
                   THEN req'[p].pc = "session"
                   ELSE Answered("process_check_in", "not_approved")'
          /\ (process_check_in_session(p) /\ WindowsOf(req[p].event, now) = {})
             => /\ store' = store
                /\ Answered("process_check_in", "no_active_session")' ]_vars

C8_Witness ==
    /\ Answered("process_check_in", "no_active_session")
    /\ \E s \in Sessions : s.start_time <= now /\ now <= s.end_time

\* C9: approve_registration, reject_registration and process_check_in called
\* by an actor without the staff capability are refused and leave every
\* table unchanged; only a staff request changes a status or adds an
\* Attendance.  (An anonymous approve or reject is refused by login_required,
\* which sends the login redirect; every other refusal is the 403.)
Refused(l) == l.outcome \in {"unauthorized", "login_redirect"}

C9_StaffOnly ==
    [][ /\ \A p \in Procs, actor \in Actors \ {"staff"} :
            /\ \A pk \in RegPks :
                  (approve_registration(p, actor, pk) \/ reject_registration(p, actor, pk))
                  => /\ store' = store
                     /\ req'[p] = Idle
                     /\ Refused(last')
                     /\ actor = "user" => last'.outcome = "unauthorized"
            /\ \A uuid \in Tokens :
                  process_check_in(p, actor, uuid)
                  => /\ store' = store
                     /\ req'[p] = Idle
                     /\ last'.outcome = "unauthorized"
        /\ registrations' # registrations /\ Cardinality(registrations') = Cardinality(registrations)
              => \E p \in Procs : req[p].actor = "staff" /\ registration_save(p)
        /\ attendances' # attendances
              => \E p \in Procs : req[p].actor = "staff" /\ process_check_in_create(p) ]_vars

C9_Witness ==
    /\ Answered("approve_registration", "unauthorized")
    /\ \E r \in registrations : r.status = "pending"

\* C10: secure_download serves the file only if the resource belongs to the
\* registration's event, the registration is approved, unlock_time is null
\* or not later than the current time, and requires_check_in is false or the
\* registration has an Attendance; if one of the four fails the request is
\* denied and nothing is served.
Authorized(res, reg, t) ==
    /\ res.event = reg.event
    /\ reg.status = "approved"
    /\ (res.unlock_time = Null \/ res.unlock_time <= t)
    /\ (~ res.requires_check_in \/ \E a \in attendances : a.registration = reg.pk)

Denials == {"forbidden", "not_approved", "not_available_yet", "must_check_in"}

C10_ServedOnlyIfAuthorized ==
    [][ \A p \in Procs :
          /\ \A uuid \in Tokens, res \in Resources :
                (secure_download(p, uuid, res.id) /\ RegByUuid(uuid) # {})
                => LET reg == TheOne(RegByUuid(uuid))
                   IN  IF req'[p] = Idle
                       THEN /\ last'.op = "secure_download"
                            /\ last'.outcome \in Denials <=> ~ Authorized(res, reg, now)
                            /\ last'.outcome = "served" <=> (Authorized(res, reg, now) /\ res.file)
                       ELSE /\ req'[p].pc = "attended"
                            /\ res.requires_check_in
                            /\ res.event = reg.event
                            /\ reg.status = "approved"
                            /\ (res.unlock_time = Null \/ res.unlock_time <= now)
          /\ secure_download_attended(p)
                => LET res == ResById(req[p].resource)
                       has == \E a \in attendances : a.registration = req[p].reg
                   IN  /\ last'.outcome \in Denials <=> ~ has
                       /\ last'.outcome = "served" <=> (has /\ res.file)
                       /\ req'[p] = Idle ]_vars

C10_Witness ==
    /\ Answered("secure_download", "served")
    /\ last.detail = "r1"

\* C11: the portal listing and secure_download take the same unlock
\* decision: when participant_portal answers, a resource of the
\* registration's event is absent from locked_resources if and only if the
\* four authorization checks of secure_download pass for it; a registration
\* that is not approved sees every resource locked.
C11_PortalAgreesWithDownload ==
    [][ \A p \in Procs :
          participant_portal_resources(p)
          => \A res \in event_resources(req[p].event) :
                (res.id \notin last'.locked_resources)
                    <=> Authorized(res, TheOne(RegByPk(req[p].reg)), req[p].at) ]_vars

\* the only gate between registration reg and resource res is unlock_time:
\* same event, status approved, an unlock_time, the attendance gate open
OnlyTimeGate(res, reg) ==
    /\ res.event = reg.event
    /\ reg.status = "approved"
    /\ res.unlock_time # Null
    /\ (~ res.requires_check_in \/ \E a \in attendances : a.registration = reg.pk)

\* C12: when unlock_time is the only gate, the download and the listing are
\* locked at every time before unlock_time and unlocked at every time from
\* unlock_time on, unlock_time itself included, and a tick of the clock
\* never locks what was unlocked.
C12_UnlockMonotonic ==
    [][ /\ \A p \in Procs :
            /\ \A uuid \in Tokens, res \in Resources :
                  (/\ secure_download(p, uuid, res.id)
                   /\ RegByUuid(uuid) # {}
                   /\ OnlyTimeGate(res, TheOne(RegByUuid(uuid))))
                  => /\ now < res.unlock_time
                           => Answered("secure_download", "not_available_yet")'
                     /\ now >= res.unlock_time
                           => \/ last'.outcome \in {"served", "file_not_found"}
                              \/ req'[p].pc = "attended"
            /\ (secure_download_attended(p)
                  /\ OnlyTimeGate(ResById(req[p].resource), TheOne(RegByPk(req[p].reg))))
                  => last'.outcome \in {"served", "file_not_found"}
            /\ participant_portal_resources(p)
                  => \A res \in Resources :
                        OnlyTimeGate(res, TheOne(RegByPk(req[p].reg)))
                        => (res.id \in last'.locked_resources
                              <=> req[p].at < res.unlock_time)
        /\ Tick
              => \A reg \in registrations, res \in Resources :
                    OnlyTimeGate(res, reg)
                    => /\ download_denial(res, reg, now) = Nil
                             => download_denial(res, reg, now') = Nil
                       /\ ~ is_locked(res, reg.pk, now) => ~ is_locked(res, reg.pk, now') ]_vars

\* a download served at the very instant of unlock_time
C12_Witness ==
    /\ Answered("secure_download", "served")
    /\ last.detail = "r3"
    /\ now = ResById("r3").unlock_time

\* C13: for a resource with requires_check_in, of the registration's event
\* and an approved registration: before unlock_time the download and the
\* listing are locked with or without an Attendance; from unlock_time on
\* they are locked when the registration has no Attendance and unlocked
\* when it has one, whatever session that Attendance is for.
HasAttendance(pk) == \E a \in attendances : a.registration = pk

GatedByCheckIn(res, reg) ==
    /\ res.requires_check_in
    /\ res.event = reg.event
    /\ reg.status = "approved"

Unlocked(res, t) == res.unlock_time = Null \/ res.unlock_time <= t

C13_AnyAttendanceOpensGate ==
    [][ \A p \in Procs :
          /\ \A uuid \in Tokens, res \in Resources :
                (/\ secure_download(p, uuid, res.id)
                 /\ RegByUuid(uuid) # {}
                 /\ GatedByCheckIn(res, TheOne(RegByUuid(uuid))))
                => IF Unlocked(res, now)
                   THEN req'[p].pc = "attended"
                   ELSE Answered("secure_download", "not_available_yet")'
          /\ (secure_download_attended(p)
                /\ GatedByCheckIn(ResById(req[p].resource), TheOne(RegByPk(req[p].reg))))
                => IF HasAttendance(req[p].reg)
                   THEN last'.outcome \in {"served", "file_not_found"}
                   ELSE Answered("secure_download", "must_check_in")'
          /\ participant_portal_resources(p)
                => \A res \in Resources :
                      GatedByCheckIn(res, TheOne(RegByPk(req[p].reg)))
                      => (res.id \in last'.locked_resources
                            <=> ~ (Unlocked(res, req[p].at) /\ HasAttendance(req[p].reg))) ]_vars

\* r4, linked to session s2, passes the gate (its file is missing) on the
\* strength of an Attendance of session s3 alone
C13_Witness ==
    /\ Answered("secure_download", "file_not_found")
    /\ last.detail = "r4"
    /\ \A a \in attendances : a.session = "s3"

\* C14: event_register for an event whose is_published is false ends in
\* not-found and creates no Participant, Registration or
\* RegistrationAnswer; every Registration row is created for a published
\* event.
C14_UnpublishedAcceptsNothing ==
    [][ /\ \A p \in Procs, e \in Events, email \in Emails, sub \in Submissions,
             valid \in BOOLEAN :
              (event_register_get_or_create(p, e, email, sub, valid) /\ ~ is_published(e))
              => /\ Answered("event_register", "not_found")'
                 /\ req'[p] = Idle
                 /\ store' = store
        /\ \A r \in registrations' \ registrations : is_published(r.event) ]_vars

\* an unpublished event was asked for while the store already held rows
C14_Witness ==
    /\ Answered("event_register", "not_found")
    /\ registrations # {}
    /\ \A r \in registrations : is_published(r.event)

\* C15: the scenario of event e1 (requires_approval, one session s1 from 0
\* to 1), with requests served one after another.  Each line is one request
\* of the scenario, taken in the state the lines before it leave:
\*   register P                      -> a pending Registration
\*   check-in of P inside s1         -> not-approved, nothing created
\*   staff approves P                -> status approved
\*   check-in of P inside s1         -> success, an Attendance for s1
\*   check-in of P inside s1 again   -> already-checked-in
\*   check-in of P after s1          -> no-active-session
\* and P never has more than the one Attendance.
ScenarioRows(pk) == { a \in attendances : a.registration = pk }

InsideS1 == 0 <= now /\ now <= 1

C15_Scenario ==
    /\ [](\A r \in registrations : r.event = "e1" => Cardinality(ScenarioRows(r.pk)) <= 1)
    /\ [][ \A p \in Procs :
            /\ (event_register_create(p) /\ req[p].event = "e1")
                  => /\ Cardinality(registrations') = Cardinality(registrations) + 1
                     /\ \A r \in registrations' \ registrations :
                           r.event = "e1" /\ r.status = "pending"
            /\ \A uuid \in Tokens :
                  (/\ process_check_in(p, "staff", uuid)
                   /\ \E r \in registrations : r.uuid = uuid /\ r.event = "e1")
                  => LET r == CHOOSE x \in registrations : x.uuid = uuid
                     IN  /\ r.status = "pending"
                            => /\ Answered("process_check_in", "not_approved")'
                               /\ store' = store
                         /\ r.status = "approved"
                            => req'[p].pc = "session" /\ req'[p].reg = r.pk
            /\ (registration_save(p) /\ req[p].op = "approve_registration")
                  => /\ Answered("approve_registration", "ok")'
                     /\ \E r \in registrations' : r.pk = req[p].reg /\ r.status = "approved"
            /\ (process_check_in_session(p) /\ req[p].event = "e1")
                  => IF InsideS1
                     THEN req'[p].pc = "exists" /\ req'[p].session = "s1"
                     ELSE Answered("process_check_in", "no_active_session")' /\ store' = store
            /\ (process_check_in_exists(p) /\ req[p].session = "s1")
                  => IF ScenarioRows(req[p].reg) = {}
                     THEN req'[p].pc = "create"
                     ELSE Answered("process_check_in", "already_checked_in")' /\ store' = store
            /\ (process_check_in_create(p) /\ req[p].session = "s1")
                  => /\ Answered("process_check_in", "success")'
                     /\ \E a \in attendances' \ attendances :
                           a.registration = req[p].reg /\ a.session = "s1"
                     /\ Cardinality({ a \in attendances' : a.registration = req[p].reg }) = 1 ]_vars

\* the end of the scenario: the scan after s1 is refused, P is approved and
\* holds its one Attendance, of s1
C15_Witness ==
    /\ Answered("process_check_in", "no_active_session")
    /\ now = 2
    /\ \E r \in registrations :
          /\ r.event = "e1" /\ r.status = "approved"
          /\ Cardinality(ScenarioRows(r.pk)) = 1
          /\ \A a \in ScenarioRows(r.pk) : a.session = "s1"
    /\ \A r \in registrations : r.event = "e1"

\* the context key under which the count of a status is reported
CountKey(status) ==
    CASE status = "pending" -> "pending_count"
      [] status = "approved" -> "approved_count"
      [] status = "rejected" -> "rejected_count"

\* C16: the dashboard of a staff actor changes no state and reports, for
\* each of pending, approved and rejected, the number of the event's
\* registrations now in that status, the three summing to the reported
\* total; with a status filter it lists exactly the registrations of that
\* status.
C16_DashboardCounts ==
    [][ \A p \in Procs, e \in Events, f \in StatusFilters :
          EventDashboardView(p, "staff", e, f)
          => LET ctx == last'.context
                 rows == { r \in registrations : r.event = e }
             IN  /\ store' = store
                 /\ Answered("EventDashboardView", "ok")'
                 /\ ctx.total_count = Cardinality(rows)
                 /\ f # "all" => ctx.registrations = { r.pk : r \in { x \in rows : x.status = f } }
                 /\ f = "all" => ctx.registrations = { r.pk : r \in rows }
                 /\ \A st \in STATUS_CHOICES :
                       /\ CountKey(st) \in DOMAIN ctx
                       /\ ctx[CountKey(st)] = Cardinality({ r \in rows : r.status = st })
                 /\ ctx.pending_count + ctx.approved_count + ctx["rejected_count"]
                       = ctx.total_count ]_vars

\* a process_check_in request past its first statement
Scanning(p) ==
    req[p].op = "process_check_in" /\ req[p].pc \in {"session", "exists", "create"}

\* C17: process_check_in answers with the outcome of the first failing
\* check in the order staff capability, token, approval status, active
\* session, existing Attendance, whatever the later checks would say; a
\* request reaches a later check only when the earlier ones passed, and an
\* Attendance is inserted only by a request that passed all five.
C17_CheckOrder ==
    /\ [](\A p \in Procs :
            Scanning(p)
            => /\ req[p].actor = "staff"
               /\ \E r \in registrations : r.pk = req[p].reg /\ r.event = req[p].event
               /\ req[p].pc \in {"exists", "create"}
                     => \E s \in Sessions : s.id = req[p].session /\ s.event = req[p].event)
    /\ [][ /\ \A p \in Procs :
              /\ \A actor \in Actors, uuid \in Tokens :
                    process_check_in(p, actor, uuid)
                    => IF actor # "staff"
                       THEN Answered("process_check_in", "unauthorized")'
                       ELSE IF ~ \E r \in registrations : r.uuid = uuid
                       THEN Answered("process_check_in", "not_found")'
                       ELSE IF \E r \in registrations : r.uuid = uuid /\ r.status # "approved"
                       THEN Answered("process_check_in", "not_approved")'
                       ELSE req'[p].pc = "session"
              /\ process_check_in_session(p)
                    => IF WindowsOf(req[p].event, now) = {}
                       THEN Answered("process_check_in", "no_active_session")'
                       ELSE req'[p].pc = "exists"
              /\ process_check_in_exists(p)
                    => IF \E a \in attendances :
                             a.registration = req[p].reg /\ a.session = req[p].session
                       THEN Answered("process_check_in", "already_checked_in")'
                       ELSE req'[p].pc = "create"
              /\ (\E actor \in Actors, uuid \in Tokens : process_check_in(p, actor, uuid))
                    \/ process_check_in_session(p) \/ process_check_in_exists(p)
                    => store' = store
           /\ attendances' # attendances
                 => \E p \in Procs :
                       /\ process_check_in_create(p)
                       /\ Answered("process_check_in", "success")' ]_vars

\* an actor without the staff capability scans a token that resolves to
\* nothing: unauthorized, not not-found
C17_Witness ==
    /\ Answered("process_check_in", "unauthorized")
    /\ registrations = {}

\* the status a transition view writes
Target(op) == IF op = "approve_registration" THEN "approved" ELSE "rejected"

\* C18: a staff approve or reject of an existing registration goes through
\* from any current status: the view loads the row without looking at its
\* status and writes its own target status over pending, approved and
\* rejected alike, so a repeated transition leaves the status as it is.
C18_TransitionsUnguarded ==
    [][ \A p \in Procs :
          /\ \A pk \in RegPks :
                (/\ approve_registration(p, "staff", pk) \/ reject_registration(p, "staff", pk)
                 /\ \E r \in registrations : r.pk = pk)
                => req'[p].pc = "save" /\ req'[p].reg = pk
          /\ registration_save(p)
                => /\ last'.op = req[p].op /\ last'.outcome = "ok"
                   /\ \A r \in registrations :
                         IF r.pk = req[p].reg
                         THEN [r EXCEPT !.status = Target(req[p].op)] \in registrations'
                         ELSE r \in registrations'
                   /\ Cardinality(registrations') = Cardinality(registrations) ]_vars

\* a registration of e2, created approved, has been rejected
C18_Witness ==
    /\ Answered("reject_registration", "ok")
    /\ \E r \in registrations : r.event = "e2" /\ r.status = "rejected"

\* C19: whenever an Attendance row is inserted, the stored status of its
\* registration is 'approved' at that step, also when a staff reject of the
\* registration runs between the status read and the insert of the scan.
C19_ApprovedAtInsert ==
    [][ \A a \in attendances' \ attendances :
          \E r \in registrations : r.pk = a.registration /\ r.status = "approved" ]_vars

\* C20: the session a check-in resolves is a session of the registration's
\* own event whose window contains the current time, start_time and
\* end_time included; when no session of that event contains the time the
\* resolver yields none, whatever the sessions of other events.  The
\* scanner page resolves the session of its event the same way.
C20_ActiveSession ==
    [][ \A p \in Procs :
          /\ process_check_in_session(p)
                => IF \E s \in Sessions : /\ s.event = req[p].event
                                          /\ s.start_time <= now /\ now <= s.end_time
                   THEN /\ req'[p].pc = "exists"
                        /\ \E s \in Sessions : /\ s.id = req'[p].session
                                               /\ s.event = req[p].event
                                               /\ s.start_time <= now /\ now <= s.end_time
                   ELSE Answered("process_check_in", "no_active_session")'
          /\ \A e \in Events :
                staff_check_in(p, e)
                => IF \E s \in Sessions : /\ s.event = e
                                          /\ s.start_time <= now /\ now <= s.end_time
                   THEN \E s \in Sessions : /\ s.id = last'.detail
                                            /\ s.event = e
                                            /\ s.start_time <= now /\ now <= s.end_time
                   ELSE last'.detail = Nil ]_vars

\* a scan recorded against s3, which the resolver yields only at the very
\* end of its window (before that the earlier s2 is resolved)
C20_Witness ==
    /\ Answered("process_check_in", "success")
    /\ \E a \in attendances : a.session = "s3"
    /\ \E s \in Sessions : s.id = "s3" /\ s.end_time = now

\* C21: no step updates or deletes an Attendance row: every row of the
\* table is still there, field for field, after an approve, a reject (also
\* of a registration that has checked in), a further check-in, a further
\* registration and every other step.
C21_AttendanceKept ==
    [][ /\ attendances \subseteq attendances'
        /\ \A p \in Procs :
              registration_save(p) \/ event_register_create(p) \/ process_check_in_create(p)
              => \A a \in attendances : a \in attendances' ]_vars

\* a registration that has checked in has been rejected, and keeps its row
C21_Witness ==
    /\ Answered("reject_registration", "ok")
    /\ \E r \in registrations :
          r.status = "rejected" /\ \E a \in attendances : a.registration = r.pk

\* the Participant rows with an email
ByEmail(email) == { x \in participants : x.email = email }

\* C22: with requests served one after another, event_register for an
\* email that already has a Participant reuses that row and leaves its name
\* and phone as the first submission set them, whatever the new submission
\* carries; no email ever has two Participant rows.
C22_FirstSubmissionWins ==
    /\ [](\A email \in Emails : Cardinality(ByEmail(email)) <= 1)
    /\ [][ /\ \A x \in participants : x \in participants'
           /\ \A p \in Procs, e \in Events, email \in Emails, sub \in Submissions :
                 (/\ event_register_get_or_create(p, e, email, sub, TRUE)
                  /\ is_published(e)
                  /\ ByEmail(email) # {})
                 => /\ participants' = participants
                    /\ \E x \in ByEmail(email) : req'[p].participant = x.pk ]_vars

\* a second submission has gone through on the Participant of the first
C22_Witness ==
    /\ Answered("event_register", "created")
    /\ Cardinality(registrations) = 2
    /\ Cardinality(participants) = 1

\* checks 1 to 3 of the download pass for resource res and registration reg
FirstThreePass(res, reg, t) ==
    /\ res.event = reg.event
    /\ reg.status = "approved"
    /\ (res.unlock_time = Null \/ res.unlock_time <= t)

\* C23: secure_download answers with the missing-file outcome only after
\* all four authorization checks passed; when one of them fails it answers
\* with that denial whether or not the resource has a file, so the outcome
\* of a denied request does not depend on the file.
C23_MissingFileOnlyWhenAuthorized ==
    [][ \A p \in Procs :
          /\ \A uuid \in Tokens, res \in Resources :
                (secure_download(p, uuid, res.id) /\ \E r \in registrations : r.uuid = uuid)
                => LET reg == CHOOSE r \in registrations : r.uuid = uuid
                   IN  /\ ~ FirstThreePass(res, reg, now)
                             => last'.outcome =
                                   IF res.event # reg.event THEN "forbidden"
                                   ELSE IF reg.status # "approved" THEN "not_approved"
                                   ELSE "not_available_yet"
                       /\ last'.outcome = "file_not_found"
                             => /\ FirstThreePass(res, reg, now)
                                /\ ~ res.requires_check_in
                                /\ ~ res.file
                       /\ req'[p].pc = "attended" => FirstThreePass(res, reg, now)
          /\ secure_download_attended(p)
                => LET res == CHOOSE r \in Resources : r.id = req[p].resource
                   IN  IF \E a \in attendances : a.registration = req[p].reg
                       THEN last'.outcome = IF res.file THEN "served" ELSE "file_not_found"
                       ELSE Answered("secure_download", "must_check_in")' ]_vars

\* r4 has no file, and the request for it is denied for want of a check-in
C23_Witness ==
    /\ Answered("secure_download", "must_check_in")
    /\ last.detail = "r4"
    /\ ~ ResById("r4").file

\* C24: an approve or reject writes the status of its own Registration and
\* nothing else: the row keeps its token, event and participant, every
\* other Registration and the other tables are as before.  Under every
\* operation a Registration keeps the token it was created with, and no two
\* Registrations share a token.
C24_TransitionFrame ==
    /\ [](\A r1, r2 \in registrations : r1.uuid = r2.uuid => r1 = r2)
    /\ [][ /\ \A r \in registrations :
                 \E n \in registrations' : n.pk = r.pk /\ n.uuid = r.uuid
           /\ \A p \in Procs :
                 registration_save(p)
                 => /\ \A r \in registrations :
                          IF r.pk = req[p].reg
                          THEN \E n \in registrations' :
                                  /\ n.pk = r.pk /\ n.uuid = r.uuid
                                  /\ n.event = r.event /\ n.participant = r.participant
                          ELSE r \in registrations'
                    /\ Cardinality(registrations') = Cardinality(registrations)
                    /\ attendances' = attendances
                    /\ participants' = participants
                    /\ answers' = answers ]_vars

\* a transition went through while a second Registration and an Attendance
\* were in the store
C24_Witness ==
    /\ Answered("approve_registration", "ok")
    /\ Cardinality(registrations) = 2
    /\ attendances # {}

\* C25: a step of process_check_in that does not answer success leaves the
\* Attendance rows and every Registration as they were, whichever refusal
\* it ends in; the step that answers success adds exactly one Attendance
\* row, for the scanned registration, and leaves every Registration as it
\* was.
C25_CheckInFrame ==
    [][ \A p \in Procs :
          /\ (\/ \E actor \in Actors, uuid \in Tokens : process_check_in(p, actor, uuid)
              \/ process_check_in_session(p)
              \/ process_check_in_exists(p))
             => /\ ~ Answered("process_check_in", "success")'
                /\ attendances' = attendances
                /\ registrations' = registrations
          /\ process_check_in_create(p)
             => /\ registrations' = registrations
                /\ IF Answered("process_check_in", "success")'
                   THEN /\ Cardinality(attendances') = Cardinality(attendances) + 1
                        /\ attendances \subseteq attendances'
                        /\ \A a \in attendances' \ attendances :
                              a.registration = req[p].reg /\ a.session = req[p].session
                   ELSE attendances' = attendances ]_vars

\* a repeated scan was turned away while the first check-in was on record
C25_Witness ==
    /\ Answered("process_check_in", "already_checked_in")
    /\ attendances # {}

\* C26: pending is a status a Registration can only start in.  A transition
\* writes approved or rejected; a Registration that is approved or rejected
\* in one state is not pending in the next, whatever the step; and a
\* Registration of an event that does not require approval is not pending
\* in any state.
C26_PendingInitialOnly ==
    /\ [](\A r \in registrations : ~ requires_approval(r.event) => r.status # "pending")
    /\ [][ /\ \A r \in registrations, n \in registrations' :
                 (n.pk = r.pk /\ r.status # "pending") => n.status # "pending"
           /\ \A p \in Procs :
                 registration_save(p)
                 => \A n \in registrations' :
                       n.pk = req[p].reg => n.status \in {"approved", "rejected"} ]_vars

\* a rejection went through on a Registration that started as approved, and
\* another one that started as pending has been decided
C26_Witness ==
    /\ Answered("reject_registration", "ok")
    /\ \E r \in registrations : ~ requires_approval(r.event) /\ r.status = "rejected"
    /\ \E r \in registrations : requires_approval(r.event) /\ r.status # "pending"

\* what secure_download answers for resource res, registration reg and
\* time t in the current state: the first failing check, or the file
DownloadVerdict(res, reg, t) ==
    LET denial == download_denial(res, reg, t)
    IN  IF denial # Nil THEN denial
        ELSE IF res.requires_check_in /\ ~ attended(reg.pk) THEN "must_check_in"
        ELSE serve(res)

\* C27: the listing is never stricter than the download.  When
\* participant_portal answers, every resource of the registration's event
\* that it lists as locked is one that secure_download denies for the same
\* registration at the same time, and every resource that secure_download
\* would serve is listed as unlocked.
C27_PortalNeverStricter ==
    [][ \A p \in Procs :
          participant_portal_resources(p)
          => LET reg == TheOne(RegByPk(req[p].reg))
             IN  \A res \in event_resources(req[p].event) :
                    /\ res.id \in last'.locked_resources
                          => DownloadVerdict(res, reg, req[p].at) \in Denials
                    /\ DownloadVerdict(res, reg, req[p].at) = "served"
                          => res.id \notin last'.locked_resources ]_vars

\* the portal of an approved registration of e1 listed r1 as locked and r2
\* as unlocked
C27_Witness ==
    /\ last.op = "participant_portal"
    /\ last.locked_resources = {"r1"}
    /\ \E r \in registrations : r.event = "e1" /\ r.status = "approved"

\* the session of this id
SessionOf(id) == CHOOSE s \in Sessions : s.id = id

\* C28: when the windows of several sessions of the event contain the time
\* of the scan, process_check_in resolves the one session among them whose
\* start_time is the earliest; the Attendance row it then inserts is for
\* that session, and no row is inserted for a session while an
\* earlier-starting session of the same event overlaps it at the clock's
\* time.
C28_EarliestStartWins ==
    [][ \A p \in Procs :
          /\ (process_check_in_session(p) /\ WindowsOf(req[p].event, now) # {})
             => \E s \in WindowsOf(req[p].event, now) :
                   /\ req'[p].session = s.id
                   /\ \A o \in WindowsOf(req[p].event, now) \ {s} :
                         s.start_time < o.start_time
          /\ (process_check_in_create(p) /\ Answered("process_check_in", "success")')
             => \A a \in attendances' \ attendances :
                   LET s == SessionOf(a.session)
                   IN  /\ \A o \in WindowsOf(s.event, req[p].at) : s.start_time <= o.start_time
                       /\ \A o \in WindowsOf(s.event, now) : s.start_time <= o.start_time ]_vars

\* a scan read the clock at 1, when s2 and s3 of e2 overlap, and is about
\* to insert its row for s2
C28_Witness ==
    \E p \in Procs :
        /\ req[p].op = "process_check_in" /\ req[p].pc = "create"
        /\ req[p].at = 1
        /\ req[p].session = "s2"
        /\ Cardinality(WindowsOf("e2", 1)) = 2

\* the Registration of this primary key
RegistrationOf(pk) == CHOOSE r \in registrations : r.pk = pk

\* C29: every Attendance row links a Registration and a Session of the
\* same Event in every state; the row that process_check_in inserts is for
\* a session whose window contains the time the view read for the scan;
\* and no step removes or rewrites an Attendance row.
C29_AttendanceWellFormed ==
    /\ [](\A a \in attendances :
            /\ \E r \in registrations : r.pk = a.registration
            /\ \E s \in Sessions : s.id = a.session
            /\ RegistrationOf(a.registration).event = SessionOf(a.session).event)
    /\ [][ /\ attendances \subseteq attendances'
           /\ \A a \in attendances' \ attendances :
                 \E p \in Procs :
                    /\ process_check_in_create(p)
                    /\ a.registration = req[p].reg
                    /\ req[p].at # Null
                    /\ SessionOf(a.session).start_time <= req[p].at
                    /\ req[p].at <= SessionOf(a.session).end_time
                    /\ req[p].at <= now ]_vars

\* check-ins of two events are on record, the one for s3 made by a scan
\* that read the clock at 2, the only time s3 is resolved
C29_Witness ==
    /\ Answered("process_check_in", "success")
    /\ now = 2
    /\ \E a \in attendances : a.session = "s1"
    /\ \E a \in attendances : a.session = "s3"

====
